---------------------------- MODULE Spec2Model ----------------------------
(***************************************************************************)
(* A model of conda-merge (conda_merge.py): the DAG class used to merge    *)
(* channel priorities, merge_channels, merge_names and merge_dependencies. *)
(*                                                                         *)
(* Python values are modelled as follows.                                  *)
(*   - a channel identifier is an opaque TLA+ string ("a", "b", ...);      *)
(*   - an environment name, a dependency and a pip requirement are Python  *)
(*     strings that the code tests for blankness and sorts: they are       *)
(*     sequences of character codes, compared as Python compares str;      *)
(*   - a list is a sequence; an optional list (a list or None) is a record *)
(*     [isNone, val];                                                      *)
(*   - an OrderedDict is the sequence of its keys in insertion order and   *)
(*     the function from its keys to their values;                         *)
(*   - a deque is a sequence read left to right;                           *)
(*   - the outcome of a call is a record [exc, args, value]: exc is "None" *)
(*     when the call returned, else the exception's class; args is the     *)
(*     exception's args[0], a formatted string kept as the sequence of its *)
(*     pieces.                                                             *)
(***************************************************************************)
EXTENDS Integers, Sequences, FiniteSets

VARIABLES
    dag,        \* SpecDAG: the DAG object's self.graph
    call,       \* SpecDAG: the last call on the DAG, the graph before it and its outcome
    input,      \* the argument of the function a specification applies
    output,     \* the outcome of that function
    pc          \* "start" before the function is applied, "done" after

vars == <<dag, call, input, output, pc>>

---------------------------------------------------------------------------
(* Bounds *)

\* channel identifiers the model draws from
ChannelUniverse == <<"a", "b", "c", "d", "e">>
\* how many of them are in use
NumChannels == 3
\* most channel entries in all the environment files merged at once
MaxTotal == 4
\* most environment files merged at once
MaxLists == 2
\* most calls made on one DAG object
MaxCalls == 7

Channels == {ChannelUniverse[i] : i \in 1..NumChannels}

\* environment names the model draws from, the blank name first
NameUniverse == <<"", "a", "b", "c">>
\* how many of them are in use
NumNames == 3
\* most environment files whose names are merged at once
MaxNames == 4

Names == {NameUniverse[i] : i \in 1..NumNames}

\* character codes of the strings that are sorted
NumChars == 2
\* longest dependency string
MaxStrLen == 2
\* longest pip requirement string
MaxReqLen == 1
\* most requirements in one pip section
MaxPips == 2
\* most entries in one dependencies list
MaxDeps == 2
\* most environment files whose dependencies are merged at once
MaxDepLists == 2

Chars == 1..NumChars

---------------------------------------------------------------------------
(* Python helpers *)

Range(s) == {s[i] : i \in 1..Len(s)}

\* seq[-1]
Last(s) == s[Len(s)]

\* seq[:-1]
Front(s) == SubSeq(s, 1, Len(s) - 1)

\* all sequences over S of length at most n
SeqsUpTo(S, n) == UNION {[1..k -> S] : k \in 0..n}

\* an optional value: None, or a value
None == [isNone |-> TRUE, val |-> <<>>]
Some(v) == [isNone |-> FALSE, val |-> v]

\* a call that returned v
Returned(v) == [exc |-> "None", args |-> <<>>, value |-> v]
\* a call that raised cls(msg)
Raised(cls, msg) == [exc |-> cls, args |-> msg, value |-> <<>>]

---------------------------------------------------------------------------
(* class DAG *)

\* DAG.__init__: self.graph = OrderedDict()
EmptyGraph == [keys |-> <<>>, adj |-> [n \in {} |-> <<>>]]

\* node_name in self.graph
HasNode(g, n) == n \in DOMAIN g.adj

\* DAG.__len__
GraphLen(g) == Len(g.keys)

\* DAG.add_node: the graph after the call
add_node(g, node_name) ==
    IF ~HasNode(g, node_name)
    THEN [keys |-> Append(g.keys, node_name),
          adj  |-> [n \in DOMAIN g.adj \cup {node_name} |->
                        IF n = node_name THEN <<>> ELSE g.adj[n]]]
    ELSE g

\* self.graph[from_node].append(to_node)
AppendEdge(g, from_node, to_node) ==
    [g EXCEPT !.adj[from_node] = Append(@, to_node)]

\* DAG.independent_nodes: the nodes no edge points to, in insertion order
independent_nodes(g) ==
    LET dependent_nodes == UNION {Range(g.adj[n]) : n \in DOMAIN g.adj}
    IN  SelectSeq(g.keys, LAMBDA node : node \notin dependent_nodes)

\* the in_degree dictionary topological_sort builds (lines 211-217)
InDegree(g) ==
    LET slots == UNION {{<<f, i>> : i \in 1..Len(g.adj[f])} : f \in DOMAIN g.adj}
    IN  [node \in DOMAIN g.adj |->
            Cardinality({e \in slots : g.adj[e[1]][e[2]] = node})]

\* the deque after the seeding loop (lines 219-222): appendleft of every
\* node of in-degree 0, in insertion order
RECURSIVE SeedQueue(_, _, _, _)
SeedQueue(g, in_degree, i, queue) ==
    IF i > Len(g.keys) THEN queue
    ELSE SeedQueue(g, in_degree, i + 1,
                   IF in_degree[g.keys[i]] = 0 THEN <<g.keys[i]>> \o queue ELSE queue)

\* the inner for loop testing the in-degree before decrementing it
RECURSIVE Release_testBeforeDecrement(_, _, _, _)
Release_testBeforeDecrement(succs, i, in_degree, queue) ==
    IF i > Len(succs) THEN [in_degree |-> in_degree, queue |-> queue]
    ELSE LET next_node == succs[i]
             d == [in_degree EXCEPT ![next_node] = @ - 1]
         IN  Release_testBeforeDecrement(succs, i + 1, d,
                     IF in_degree[next_node] = 0 THEN <<next_node>> \o queue ELSE queue)

\* the inner for loop (lines 228-231) over the successors of the popped node
RECURSIVE Release(_, _, _, _)
Release(succs, i, in_degree, queue) ==
    IF i > Len(succs) THEN [in_degree |-> in_degree, queue |-> queue]
    ELSE LET next_node == succs[i]
             d == [in_degree EXCEPT ![next_node] = @ - 1]
         IN  Release(succs, i + 1, d,
                     IF d[next_node] = 0 THEN <<next_node>> \o queue ELSE queue)

\* the while loop with queue.popleft() and appendleft: a stack (last in, first out)
RECURSIVE SortLoop_lifo(_, _, _, _)
SortLoop_lifo(g, in_degree, queue, sorted_nodes) ==
    IF queue = <<>> THEN sorted_nodes
    ELSE LET independent_node == Head(queue)
             r == Release(g.adj[independent_node], 1, in_degree, Tail(queue))
         IN  SortLoop_lifo(g, r.in_degree, r.queue, Append(sorted_nodes, independent_node))

\* the while loop (lines 225-231): queue.pop() takes the rightmost element
RECURSIVE SortLoop(_, _, _, _)
SortLoop(g, in_degree, queue, sorted_nodes) ==
    IF queue = <<>> THEN sorted_nodes
    ELSE LET independent_node == Last(queue)
             r == Release(g.adj[independent_node], 1, in_degree, Front(queue))
         IN  SortLoop(g, r.in_degree, r.queue, Append(sorted_nodes, independent_node))

\* sorted_nodes when the while loop ends
SortedNodes(g) ==
    LET in_degree == InDegree(g)
    IN  SortLoop(g, in_degree, SeedQueue(g, in_degree, 1, <<>>), <<>>)

\* the final test (lines 233-236) without the length comparison
SortResult_noLengthCheck(g, sorted_nodes) == Returned(sorted_nodes)

\* the final test requiring a non-empty result as well
SortResult_rejectEmpty(g, sorted_nodes) ==
    IF sorted_nodes # <<>> /\ Len(sorted_nodes) = GraphLen(g)
    THEN Returned(sorted_nodes)
    ELSE Raised("ValueError", <<"graph is not acyclic">>)

\* the final test (lines 233-236)
SortResult(g, sorted_nodes) ==
    IF Len(sorted_nodes) = GraphLen(g)
    THEN Returned(sorted_nodes)
    ELSE Raised("ValueError", <<"graph is not acyclic">>)

\* DAG.topological_sort: the outcome of the call
topological_sort(g) == SortResult(g, SortedNodes(g))

\* DAG.validate
validate(g) ==
    IF Len(independent_nodes(g)) > 0
    THEN topological_sort(g).exc # "ValueError"
    ELSE FALSE

\* DAG.add_edge appending the edge before validating and never removing it
add_edge_noRollback(g, from_node, to_node) ==
    IF ~HasNode(g, from_node) \/ ~HasNode(g, to_node)
    THEN [graph |-> g,
          out   |-> Raised("KeyError", <<"one or more nodes do not exist in graph">>)]
    ELSE IF to_node \notin Range(g.adj[from_node])
    THEN IF validate(g)
         THEN [graph |-> AppendEdge(g, from_node, to_node), out |-> Returned(<<>>)]
         ELSE [graph |-> AppendEdge(g, from_node, to_node),
               out   |-> Raised("ValueError", <<from_node, " -> ", to_node>>)]
    ELSE [graph |-> g, out |-> Returned(<<>>)]

\* DAG.add_edge: the graph after the call and the call's outcome.  The code
\* builds test_graph, the copy with the new edge, and then calls
\* self.validate(), which reads self.graph: the graph WITHOUT the new edge.
add_edge(g, from_node, to_node) ==
    IF ~HasNode(g, from_node) \/ ~HasNode(g, to_node)
    THEN [graph |-> g,
          out   |-> Raised("KeyError", <<"one or more nodes do not exist in graph">>)]
    ELSE IF to_node \notin Range(g.adj[from_node])
    THEN LET test_graph == AppendEdge(g, from_node, to_node)
         IN  IF validate(g)
             THEN [graph |-> AppendEdge(g, from_node, to_node), out |-> Returned(<<>>)]
             ELSE [graph |-> g,
                   out   |-> Raised("ValueError", <<from_node, " -> ", to_node>>)]
    ELSE [graph |-> g, out |-> Returned(<<>>)]

---------------------------------------------------------------------------
(* merge_channels *)

\* `if i > 0` (line 112); enumerate counts from 0, sequences from 1
HasPrevious_skipFirstPair(i) == i > 2

HasPrevious(i) == i > 1

\* the two nested for loops (lines 107-113) from list li, element i on, and
\* the return of line 114: the outcome of the try block
RECURSIVE MergeLoop(_, _, _, _)
MergeLoop(channels_list, li, i, g) ==
    IF li > Len(channels_list) THEN topological_sort(g)
    ELSE IF channels_list[li].isNone THEN MergeLoop(channels_list, li + 1, 1, g)
    ELSE LET channels == channels_list[li].val
         IN  IF i > Len(channels) THEN MergeLoop(channels_list, li + 1, 1, g)
             ELSE LET channel == channels[i]
                      g1 == add_node(g, channel)
                  IN  IF HasPrevious(i)
                      THEN LET r == add_edge(g1, channels[i - 1], channel)
                           IN  IF r.out.exc # "None" THEN r.out
                               ELSE MergeLoop(channels_list, li, i + 1, r.graph)
                      ELSE MergeLoop(channels_list, li, i + 1, g1)

MergeErrorPrefix == "Can't satisfy channels priority: "

\* merge_channels: the outcome of the call
merge_channels(channels_list) ==
    LET r == MergeLoop(channels_list, 1, 1, EmptyGraph)
    IN  IF r.exc = "ValueError"
        THEN Raised("MergeError", <<MergeErrorPrefix>> \o r.args)
        ELSE r

---------------------------------------------------------------------------
(* merge_names *)

\* a name read from an environment file: None, or a string
NoName == [isNone |-> TRUE, str |-> ""]
Name(s) == [isNone |-> FALSE, str |-> s]

\* `if name`: None and the empty string are false
NameIsTruthy_notNone(name) == ~name.isNone

NameIsTruthy(name) == ~name.isNone /\ name.str # ""

\* merge_names: the value returned (None when the function falls off its end)
merge_names(names) ==
    LET actual_names == SelectSeq(names, NameIsTruthy)
    IN  IF actual_names # <<>> THEN Last(actual_names) ELSE NoName

---------------------------------------------------------------------------
(* merge_dependencies, with remove_builds off *)

\* a dependency entry: a string, or the dictionary {'pip': [requirements]}
StrDep(s) == [isDict |-> FALSE, str |-> s, pip |-> <<>>]
PipDep(reqs) == [isDict |-> TRUE, str |-> <<>>, pip |-> reqs]

\* Python's str < str: by code point, a proper prefix first
RECURSIVE StrLess(_, _)
StrLess(s, t) ==
    IF t = <<>> THEN FALSE
    ELSE IF s = <<>> THEN TRUE
    ELSE IF Head(s) # Head(t) THEN Head(s) < Head(t)
    ELSE StrLess(Tail(s), Tail(t))

\* x put into the ascending sequence s
RECURSIVE Insert(_, _)
Insert(s, x) ==
    IF s = <<>> THEN <<x>>
    ELSE IF StrLess(x, Head(s)) THEN <<x>> \o s
    ELSE <<Head(s)>> \o Insert(Tail(s), x)

\* sorted() of a sequence of strings
RECURSIVE SortedStrings(_)
SortedStrings(s) ==
    IF s = <<>> THEN <<>> ELSE Insert(SortedStrings(Front(s)), Last(s))

\* a set in some iteration order
RECURSIVE SetToSeq(_)
SetToSeq(S) ==
    IF S = {} THEN <<>>
    ELSE LET x == CHOOSE y \in S : TRUE IN <<x>> \o SetToSeq(S \ {x})

\* sorted(unified_deps) (line 141): a list of fewer than two entries is
\* returned without any comparison; in a longer one every entry is compared
\* with another, and comparing a dict raises TypeError
SortedDeps(unified_deps) ==
    IF Len(unified_deps) >= 2 /\ \E i \in 1..Len(unified_deps) : unified_deps[i].isDict
    THEN Raised("TypeError", <<"'<' not supported between instances">>)
    ELSE IF Len(unified_deps) < 2 THEN Returned(unified_deps)
    ELSE Returned([i \in 1..Len(unified_deps) |->
            StrDep(SortedStrings([j \in 1..Len(unified_deps) |-> unified_deps[j].str])[i])])

\* merge_pips
merge_pips(pip_list) ==
    PipDep(SortedStrings(SetToSeq(UNION {Range(pip_list[i]) : i \in 1..Len(pip_list)})))

\* the two nested for loops of merge_dependencies (lines 130-140) from list
\* li, entry i on: only_pips and unified_deps when they end
RECURSIVE CollectDeps(_, _, _, _, _)
CollectDeps(deps_list, li, i, only_pips, unified_deps) ==
    IF li > Len(deps_list) THEN [only_pips |-> only_pips, unified_deps |-> unified_deps]
    ELSE IF deps_list[li].isNone \/ i > Len(deps_list[li].val)
    THEN CollectDeps(deps_list, li + 1, 1, only_pips, unified_deps)
    ELSE LET dep == deps_list[li].val[i]
         IN  IF dep.isDict /\ dep.pip # <<>>
             THEN CollectDeps(deps_list, li, i + 1, Append(only_pips, dep.pip), unified_deps)
             ELSE IF dep \notin Range(unified_deps)
             THEN CollectDeps(deps_list, li, i + 1, only_pips, Append(unified_deps, dep))
             ELSE CollectDeps(deps_list, li, i + 1, only_pips, unified_deps)

\* merge_dependencies(deps_list, remove_builds=False): the outcome of the call
merge_dependencies(deps_list) ==
    LET c == CollectDeps(deps_list, 1, 1, <<>>, <<>>)
        sorted == SortedDeps(c.unified_deps)
    IN  IF sorted.exc # "None" THEN sorted
        ELSE IF c.only_pips # <<>>
        THEN Returned(Append(sorted.value, merge_pips(c.only_pips)))
        ELSE Returned(sorted.value)

---------------------------------------------------------------------------
(* SpecDAG: a DAG object and any sequence of calls of its methods *)

NoCall == [n |-> 0, op |-> "__init__", from |-> "", to |-> "", pre |-> EmptyGraph,
           out |-> Returned(<<>>)]

InitDAG ==
    /\ dag = EmptyGraph
    /\ call = NoCall
    /\ input = <<>>
    /\ output = Returned(<<>>)
    /\ pc = "dag"

CallAddNode(node) ==
    /\ call.n < MaxCalls
    /\ dag' = add_node(dag, node)
    /\ call' = [n |-> call.n + 1, op |-> "add_node", from |-> node, to |-> "",
                pre |-> dag, out |-> Returned(<<>>)]
    /\ UNCHANGED <<input, output, pc>>

CallAddEdge(f, t) ==
    LET r == add_edge(dag, f, t)
    IN  /\ call.n < MaxCalls
        /\ dag' = r.graph
        /\ call' = [n |-> call.n + 1, op |-> "add_edge", from |-> f, to |-> t,
                    pre |-> dag, out |-> r.out]
        /\ UNCHANGED <<input, output, pc>>

CallTopologicalSort ==
    /\ call.n < MaxCalls
    /\ call' = [n |-> call.n + 1, op |-> "topological_sort", from |-> "", to |-> "",
                pre |-> dag, out |-> topological_sort(dag)]
    /\ UNCHANGED <<dag, input, output, pc>>

NextDAG ==
    \/ \E node \in Channels : CallAddNode(node)
    \/ \E f, t \in Channels : CallAddEdge(f, t)
    \/ CallTopologicalSort

SpecDAG == InitDAG /\ [][NextDAG]_vars


---------------------------------------------------------------------------
(* SpecMerge: merge_channels applied to any sequence of optional channel lists *)

\* the sequences of at most k optional channel lists that hold at most
\* budget channels in all
ChannelInputs[k \in 0..MaxLists, budget \in 0..MaxTotal] ==
    IF k = 0 THEN {<<>>}
    ELSE {<<>>}
         \cup {<<None>> \o rest : rest \in ChannelInputs[k - 1, budget]}
         \cup UNION {{<<Some(l)>> \o rest :
                        l \in [1..n -> Channels], rest \in ChannelInputs[k - 1, budget - n]} :
                     n \in 0..budget}

InitMerge ==
    /\ input \in ChannelInputs[MaxLists, MaxTotal]
    /\ output = Returned(<<>>)
    /\ pc = "start"
    /\ dag = EmptyGraph
    /\ call = NoCall

CallMergeChannels ==
    /\ pc = "start"
    /\ output' = merge_channels(input)
    /\ pc' = "done"
    /\ UNCHANGED <<dag, call, input>>

NextMerge == CallMergeChannels

SpecMerge == InitMerge /\ [][NextMerge]_vars

---------------------------------------------------------------------------
(* SpecNames: merge_names applied to any sequence of names *)

InitNames ==
    /\ input \in SeqsUpTo({NoName} \cup {Name(n) : n \in Names}, MaxNames)
    /\ output = NoName
    /\ pc = "start"
    /\ dag = EmptyGraph
    /\ call = NoCall

CallMergeNames ==
    /\ pc = "start"
    /\ output' = merge_names(input)
    /\ pc' = "done"
    /\ UNCHANGED <<dag, call, input>>

NextNames == CallMergeNames

SpecNames == InitNames /\ [][NextNames]_vars

---------------------------------------------------------------------------
(* SpecDeps: merge_dependencies applied to any sequence of optional
   dependency lists *)

\* the non-empty strings of at most n characters
Strings(n) == SeqsUpTo(Chars, n) \ {<<>>}

DepEntries ==
    {StrDep(s) : s \in Strings(MaxStrLen)}
        \cup {PipDep(reqs) : reqs \in SeqsUpTo(Strings(MaxReqLen), MaxPips)}

DepLists == {None} \cup {Some(l) : l \in SeqsUpTo(DepEntries, MaxDeps)}

InitDeps ==
    /\ input \in SeqsUpTo(DepLists, MaxDepLists)
    /\ output = Returned(<<>>)
    /\ pc = "start"
    /\ dag = EmptyGraph
    /\ call = NoCall

CallMergeDependencies ==
    /\ pc = "start"
    /\ output' = merge_dependencies(input)
    /\ pc' = "done"
    /\ UNCHANGED <<dag, call, input>>

NextDeps == CallMergeDependencies

SpecDeps == InitDeps /\ [][NextDeps]_vars

---------------------------------------------------------------------------
(* Graph notions the properties are stated with *)

\* the edges stored in a graph
Edges(g) == UNION {{<<f, t>> : t \in Range(g.adj[f])} : f \in DOMAIN g.adj}

\* the transitive closure of a set of edges
RECURSIVE Closure(_)
Closure(E) ==
    LET E2 == E \cup UNION {{<<x[1], y[2]>> : y \in {z \in E : z[1] = x[2]}} : x \in E}
    IN  IF E2 = E THEN E ELSE Closure(E2)

HasCycle(E) == \E e \in Closure(E) : e[1] = e[2]

\* the position of x in a sequence that holds it once
IndexOf(s, x) == CHOOSE i \in 1..Len(s) : s[i] = x

\* the nodes with an edge to n
Preds(g, n) == {f \in DOMAIN g.adj : n \in Range(g.adj[f])}

\* the nodes not yet output whose predecessors have all been output
Eligible(g, done) == {n \in DOMAIN g.adj \ done : Preds(g, n) \subseteq done}

\* a topological_sort call that returned
SortReturned == call.op = "topological_sort" /\ call.out.exc = "None"

---------------------------------------------------------------------------
(* Properties of the DAG *)

\* C5: in every reachable state of a DAG built by add_node and add_edge
\* calls, the stored edges contain no cycle.
C5_GraphAlwaysAcyclic == ~HasCycle(Edges(dag))

\* C6: an add_edge call that raised (KeyError or ValueError) left the keys,
\* their order and every successor list as they were before the call.
C6_FailedAddEdgeLeavesGraph ==
    (call.op = "add_edge" /\ call.out.exc # "None") =>
        (dag.keys = call.pre.keys /\ dag.adj = call.pre.adj)

\* an add_edge call between two existing nodes raised ValueError
C6_Witness ==
    /\ call.op = "add_edge"
    /\ call.out.exc = "ValueError"
    /\ call.from \in DOMAIN dag.adj
    /\ call.to \in DOMAIN dag.adj

\* the node of lowest insertion index among a non-empty set of nodes
FirstAdded(g, S) == CHOOSE n \in S : \A m \in S : IndexOf(g.keys, n) <= IndexOf(g.keys, m)

\* C10 as stated: at every step of a topological_sort that returned, the node
\* output is the eligible node that add_node added first.
C10_InsertionOrderTieBreak ==
    SortReturned =>
        \A k \in 1..Len(call.out.value) :
            LET done == {call.out.value[j] : j \in 1..(k - 1)}
            IN  call.out.value[k] = FirstAdded(call.pre, Eligible(call.pre, done))

\* the step after which n was eligible: 0 for a node without predecessors,
\* else the position in the output of the last of its predecessors
ReadyAt(g, s, n) ==
    IF Preds(g, n) = {} THEN 0
    ELSE CHOOSE p \in 1..Len(s) :
            /\ s[p] \in Preds(g, n)
            /\ \A q \in Preds(g, n) : IndexOf(s, q) <= p

\* C10 amended: a topological_sort that returned output the nodes in the
\* order in which they became eligible (first in, first out); nodes eligible
\* from the start are in node insertion order, and nodes made eligible by the
\* output of the same node are in the order of that node's successor list.
C10_FifoTieBreak ==
    SortReturned =>
        LET g == call.pre
            s == call.out.value
        IN  \A n, m \in DOMAIN g.adj :
                LET rn == ReadyAt(g, s, n)
                    rm == ReadyAt(g, s, m)
                    before == IndexOf(s, n) < IndexOf(s, m)
                IN  /\ rn < rm => before
                    /\ (rn = 0 /\ rm = 0 /\ IndexOf(g.keys, n) < IndexOf(g.keys, m)) => before
                    /\ (rn = rm /\ rn > 0 /\ n # m
                            /\ IndexOf(g.adj[s[rn]], n) < IndexOf(g.adj[s[rn]], m)) => before

\* a topological_sort returned, and at some step two nodes were eligible
\* and the one output was not the one added first
C10_Witness ==
    /\ SortReturned
    /\ \E k \in 1..Len(call.out.value) :
            LET done == {call.out.value[j] : j \in 1..(k - 1)}
            IN  /\ Cardinality(Eligible(call.pre, done)) >= 2
                /\ call.out.value[k] # FirstAdded(call.pre, Eligible(call.pre, done))

---------------------------------------------------------------------------
(* Properties of merge_channels *)

\* the adjacent pairs of one optional list, in order
AdjacentPairs(channels) ==
    IF channels.isNone THEN <<>>
    ELSE [i \in 1..(Len(channels.val) - 1) |-> <<channels.val[i], channels.val[i + 1]>>]

\* the adjacent pairs of all lists, in input order
RECURSIVE AllPairs(_)
AllPairs(channels_list) ==
    IF channels_list = <<>> THEN <<>>
    ELSE AllPairs(Front(channels_list)) \o AdjacentPairs(Last(channels_list))

\* every identifier some list mentions
Mentioned(channels_list) ==
    UNION {Range(channels_list[li].val) : li \in 1..Len(channels_list)}

\* a occurs in s, so does b, and every a is before every b
StrictlyBefore(s, a, b) ==
    /\ a \in Range(s)
    /\ b \in Range(s)
    /\ \A p, q \in 1..Len(s) : (s[p] = a /\ s[q] = b) => p < q

MergeReturned == pc = "done" /\ output.exc = "None"

\* C1: when merge_channels returns a list, every adjacent pair (a, b) of
\* every input list has a strictly before b in it.
C1_OrderPreserved ==
    MergeReturned =>
        \A e \in Range(AllPairs(input)) : StrictlyBefore(output.value, e[1], e[2])

\* merge_channels returned for two lists that each order a pair and share
\* an identifier
C1_Witness ==
    /\ MergeReturned
    /\ Len(input) = 2
    /\ Len(input[1].val) >= 2
    /\ Len(input[2].val) >= 2
    /\ Range(input[1].val) \cap Range(input[2].val) # {}
    /\ input[1].val # input[2].val

\* C2: for inputs whose adjacent pairs are jointly acyclic, merge_channels
\* raises nothing and returns every mentioned identifier exactly once and
\* nothing else.
C2_AcyclicGivesPermutation ==
    (pc = "done" /\ ~HasCycle(Range(AllPairs(input)))) =>
        /\ output.exc = "None"
        /\ Range(output.value) = Mentioned(input)
        /\ Len(output.value) = Cardinality(Mentioned(input))

\* merge_channels ran on an acyclic input of two lists that mention three
\* identifiers, one of them in both lists
C2_Witness ==
    /\ pc = "done"
    /\ ~HasCycle(Range(AllPairs(input)))
    /\ Len(input) = 2
    /\ Range(input[1].val) \cap Range(input[2].val) # {}
    /\ Cardinality(Mentioned(input)) = 3
    /\ Len(output.value) = 3

\* C3: for inputs whose adjacent pairs contain a cycle, merge_channels
\* raises MergeError and returns no ordering.
C3_CycleRaisesMergeError ==
    (pc = "done" /\ HasCycle(Range(AllPairs(input)))) =>
        (output.exc = "MergeError" /\ output.value = <<>>)

\* merge_channels ran on two lists that order the same pair oppositely
C3_Witness ==
    /\ pc = "done"
    /\ Len(input) = 2
    /\ \E a, b \in Channels :
            /\ a # b
            /\ input[1] = Some(<<a, b>>)
            /\ input[2] = Some(<<b, a>>)
    /\ output.exc = "MergeError"

\* C4: the MergeError of merge_channels names the conflicting pair: the
\* first adjacent pair, in input order, whose edge closes a cycle with the
\* pairs before it.
C4_ErrorNamesConflictingPair ==
    (pc = "done" /\ output.exc = "MergeError") =>
        LET pairs == AllPairs(input)
        IN  \E k \in 1..Len(pairs) :
                /\ output.args = <<MergeErrorPrefix, pairs[k][1], " -> ", pairs[k][2]>>
                /\ HasCycle({pairs[j] : j \in 1..k})
                /\ ~HasCycle({pairs[j] : j \in 1..(k - 1)})

\* C7: when every element of the input is None or an empty list (an empty
\* input included), merge_channels returns the empty list.
C7_AllAbsentGivesEmpty ==
    (pc = "done" /\ \A li \in 1..Len(input) : input[li].val = <<>>) =>
        output = Returned(<<>>)

\* merge_channels ran on a None and an empty list
C7_Witness ==
    /\ pc = "done"
    /\ input = <<None, Some(<<>>)>>
    /\ output.exc = "None"

---------------------------------------------------------------------------
(* Properties of merge_names *)

\* C8: merge_names returns the non-blank name of greatest index, None and
\* the empty string being blank, and None when there is no non-blank name.
C8_LastNonBlankName ==
    pc = "done" =>
        LET nonBlank == {i \in 1..Len(input) : ~input[i].isNone /\ input[i].str # ""}
        IN  IF nonBlank = {} THEN output = NoName
            ELSE \E i \in nonBlank :
                    /\ \A j \in nonBlank : j <= i
                    /\ output = input[i]

\* merge_names ran on names whose last non-blank one is followed by a None
\* and an empty string and preceded by another name
C8_Witness ==
    /\ pc = "done"
    /\ Len(input) = 4
    /\ input[1] = Name("a")
    /\ input[2] = Name("b")
    /\ input[3] = NoName
    /\ input[4] = Name("")
    /\ output = Name("b")

---------------------------------------------------------------------------
(* Properties of merge_dependencies *)

\* every entry of every list
AllDeps(deps_list) ==
    UNION {Range(deps_list[li].val) : li \in 1..Len(deps_list)}

\* every requirement of every non-empty pip section
AllReqs(deps_list) ==
    UNION {Range(d.pip) : d \in {e \in AllDeps(deps_list) : e.isDict}}

\* a sequence of strings in strictly ascending order
Ascending(s) == \A i \in 1..(Len(s) - 1) : StrLess(s[i], s[i + 1])

\* C9: merge_dependencies returns the non-pip dependencies of all lists,
\* without duplicates and ascending; then, if some list has a non-empty pip
\* section, exactly one pip entry holding the ascending duplicate-free union
\* of all pip requirements, and otherwise no pip entry.
C9_SortedUnionThenPip ==
    pc = "done" =>
        /\ output.exc = "None"
        /\ LET v == output.value
                hasPip == AllReqs(input) # {}
                n == IF hasPip THEN Len(v) - 1 ELSE Len(v)
            IN  /\ n >= 0
                /\ \A i \in 1..n : ~v[i].isDict
                /\ {v[i].str : i \in 1..n} = {d.str : d \in {e \in AllDeps(input) : ~e.isDict}}
                /\ Ascending([i \in 1..n |-> v[i].str])
                /\ hasPip =>
                        /\ v[Len(v)].isDict
                        /\ Range(v[Len(v)].pip) = AllReqs(input)
                        /\ Ascending(v[Len(v)].pip)

=============================================================================
